---- MODULE Spec2Model ----
(***************************************************************************)
(* sktm: the persistent store (sktm/db.py, class SktDb) and the            *)
(* reconciliation engine (sktm/__init__.py, class watcher).                *)
(*                                                                         *)
(* The store is one record `db` with a field per SQLite table.  Every      *)
(* store method is an operator from a store (and arguments) to a result    *)
(* record [db, exc, ret]: the store after the call, the Python exception   *)
(* the call ends with ("none" when it returns) and the returned value.     *)
(* The engine's handlers are actions; the executor (Jenkins), the patch    *)
(* tracker and the filter program are the environment, their answers are   *)
(* the inputs the actions draw with \E.                                    *)
(* The local scheduler (sktm/scheduler.py, classes Direct and DirectRun)    *)
(* and the build submission of the executor adapter (sktm/jenkins.py,      *)
(* JenkinsProject.build) have their own variables and specifications.      *)
(***************************************************************************)
EXTENDS Integers, Sequences, FiniteSets, TLC

VARIABLES
    db,          \* the SQLite database file: a record of tables
    now,         \* int(time.time())
    next_build,  \* the executor's next build number
    pj,          \* watcher.pj: builds submitted by this process
    op,          \* the handler or store method that ran last
    trace,       \* the calls and log lines of that run, in order
    sched,       \* the local schedulers (scheduler.Direct) constructed
    jk           \* the Jenkins project and the JenkinsProject.build call

vars == <<db, now, next_build, pj, op, trace, sched, jk>>

----------------------------------------------------------------------------
(* Program constants *)

\* class tresult(enum.IntEnum)
SUCCESS == 0
MERGE_FAILURE == 1
BUILD_FAILURE == 2
PUBLISH_FAILURE == 3
TEST_FAILURE == 4
BASELINE_FAILURE == 5

tresult == {SUCCESS, MERGE_FAILURE, BUILD_FAILURE, PUBLISH_FAILURE,
            TEST_FAILURE, BASELINE_FAILURE}

\* class jtype(enum.IntEnum)
BASELINE == 0
PATCHWORK == 1

\* the window check_patchwork passes to get_expired_pending_patches
ExpiryWindow == 43200

\* Python's None, where the other values are strings
None == "None"

----------------------------------------------------------------------------
(* Bounds and the environment's value sets *)

\* builds this process may submit in one run
MaxBuilds == 1

\* rows the testrun table may grow to by direct calls of update_baseline
MaxTestRuns == 3

\* the watcher's configuration: set_baseline(repo), jenkinsjobname, add_pw
baserepo == "R"
jobname == "skt"
PW == << [baseurl |-> "P", project_id |-> 1],
         [baseurl |-> "P", project_id |-> 2] >>

\* commits the executor may report as tested base, and their commit dates
Commits == {"c1", "c2", "c3"}
CommitDate(c) == IF c = "c1" THEN 1 ELSE 2

\* results the executor may report for a baseline build
Results == {SUCCESS, BUILD_FAILURE}

\* the instants the clock is observed at
Times == {0, ExpiryWindow, ExpiryWindow + 1}

\* the filter program (watcher.patch_filter) and the exit statuses it may
\* end with: accept, reject, error, killed by a signal, anything else
patch_filter == "filter"
FilterStatuses == {0, 1, 127, 0 - 15, 2}

\* rows the pendingjobs table may grow to by direct calls of add_pending_job
MaxJobRows == 2

\* revisions of a patch's name and date the tracker may serve
MaxRev == 2

\* series the tracker may report as new: message id and patch ids
SeriesA == [message_id |-> "A", patches |-> <<103>>]
SeriesB == [message_id |-> "B", patches |-> <<104>>]
NewSeries == { << >>, <<SeriesA>>, <<SeriesA, SeriesB>> }

\* the lists of series summaries filter_patchsets is called with directly
SeriesC == [message_id |-> "C", patches |-> <<105, 106>>]
SeriesLists ==
    {l \in UNION {[1..n -> {SeriesA, SeriesB, SeriesC}] : n \in 0..3} :
        \A i, k \in 1..Len(l) : l[i] = l[k] => i = k}

\* the patch ids of the lists commit_series is called with directly
PatchLists == { <<101>>, <<101, 102>>, <<103>> }

\* build ids add_pending_job is called with directly
BuildArgs == {7, 8}

\* the limits a local scheduler may be constructed with (parallel_run_num)
MaxParallel == 3

\* the run ids the runs of a local scheduler are addressed by, from 0
MaxRunId == 4

\* the patch URL lists a local run may be submitted with, as patch ids
PatchUrlLists == { << >> } \cup PatchLists

\* build requests made of the Jenkins project, by this process and others
MaxRequests == 3

\* the refs and patch URL lists JenkinsProject.build is called with, and
\* the parameters other clients submit builds of the project with
BuildRefs == {"c1", "c2"}
BuildPatchLists == { << >>, <<"u1">> }

\* arguments the store methods are called with directly
SeriesData == { <<101, 102>>, <<103>> }
Repos == {"Q", "R"}
Windows == {0, ExpiryWindow}

----------------------------------------------------------------------------
(* Helpers *)

Max(S) == CHOOSE x \in S : \A y \in S : y <= x

Range(s) == {s[i] : i \in 1..Len(s)}

\* number of characters of str(n) for an integer n
RECURSIVE DecLen(_)
DecLen(n) == IF n < 0 THEN 1 + DecLen(0 - n)
             ELSE IF n < 10 THEN 1 ELSE 1 + DecLen(n \div 10)

\* rowid SQLite gives a row inserted without one: 1 in an empty table,
\* else the largest rowid plus one
NextRowid(rows) == IF rows = {} THEN 1 ELSE Max({r.id : r \in rows}) + 1

Ok(d, r) == [db |-> d, exc |-> "none", ret |-> r]
Raise(d, e) == [db |-> d, exc |-> e, ret |-> None]

\* one entry of `trace`: a call or a log line, the pending job it is about
\* (0: none), and the patch ids, the string and the number it carries
Ev(call, job, patches, res, n) ==
    [call |-> call, job |-> job, patches |-> patches, res |-> res, n |-> n]

----------------------------------------------------------------------------
(* The schema: SktDb.__createdb *)

PendingPatchesColumns == {"id", "patch_id", "timestamp", "pendingjob_id"}

createdb ==
    [baserepo       |-> << >>,   \* url UNIQUE; id = position
     patchsource    |-> << >>,   \* <<baseurl, project_id>>; id = position
     patch          |-> {},      \* [id, name, url, date, patchsource_id]
     pendingpatches |-> {},      \* [id, patch_id, timestamp, pendingjob_id]
     pendingjobs    |-> {},      \* [id, job_name, build_id]
     testrun        |-> << >>,   \* [result_id, build_id]; id = position
     baseline       |-> << >>]   \* [baserepo_id, commitid, commitdate,
                                 \*  testrun_id]; id = position

IndexOf(s, x) == CHOOSE i \in 1..Len(s) : s[i] = x

\* SktDb.__get_repoid, with __create_repoid when the url is new
get_repoid(d, url) ==
    IF url \in Range(d.baserepo)
    THEN Ok(d, IndexOf(d.baserepo, url))
    ELSE Ok([d EXCEPT !.baserepo = Append(@, url)], Len(d.baserepo) + 1)

\* SktDb.__get_sourceid, with __create_sourceid when the pair is new
get_sourceid(d, baseurl, project_id) ==
    IF <<baseurl, project_id>> \in Range(d.patchsource)
    THEN Ok(d, IndexOf(d.patchsource, <<baseurl, project_id>>))
    ELSE Ok([d EXCEPT !.patchsource = Append(@, <<baseurl, project_id>>)],
            Len(d.patchsource) + 1)

----------------------------------------------------------------------------
(* Store methods: class SktDb *)

\* the rows of a table in rowid order, as SELECT * returns them
RECURSIVE ById(_)
ById(rows) ==
    IF rows = {} THEN << >>
    ELSE LET r == CHOOSE x \in rows : \A y \in rows : x.id <= y.id
         IN  <<r>> \o ById(rows \ {r})

\* SktDb.add_pending_job
add_pending_job(d, job_name, build_id) ==
    Ok([d EXCEPT !.pendingjobs = @ \cup
            {[id |-> NextRowid(d.pendingjobs), job_name |-> job_name,
              build_id |-> build_id]}],
       None)

\* SktDb.get_pending_jobs
get_pending_jobs(d) == Ok(d, ById(d.pendingjobs))

\* cur.execute(sql, str(pendingjob_id)) with one "?" in sql: the string is
\* taken as the sequence of parameters, one per character
BindsOneParameter(pendingjob_id) == DecLen(pendingjob_id) = 1

\* remove_pending_job without its second DELETE
remove_pending_job_JobRowOnly(d, pendingjob_id) ==
    IF ~BindsOneParameter(pendingjob_id)
    THEN Raise(d, "ProgrammingError")
    ELSE Ok([d EXCEPT !.pendingjobs = {j \in @ : j.id # pendingjob_id}],
            None)

\* SktDb.remove_pending_job
remove_pending_job(d, pendingjob_id) ==
    IF ~BindsOneParameter(pendingjob_id)
    THEN Raise(d, "ProgrammingError")
    ELSE Ok([d EXCEPT
               !.pendingjobs = {j \in @ : j.id # pendingjob_id},
               !.pendingpatches = {r \in @ : r.pendingjob_id # pendingjob_id}],
            None)

\* SktDb.get_patches_for_job
get_patches_for_job(d, pendingjob_id) ==
    IF ~BindsOneParameter(pendingjob_id)
    THEN Raise(d, "ProgrammingError")
    ELSE Ok(d, ById({r \in d.pendingpatches :
                        r.pendingjob_id = pendingjob_id}))

\* SktDb.get_expired_pending_patches, called at time t
get_expired_pending_patches(d, baseurl, project_id, exptime, t) ==
    LET src    == get_sourceid(d, baseurl, project_id)
        tstamp == t - exptime
    IN  IF ~({"id", "patchsource_id", "timestamp"}
                \subseteq PendingPatchesColumns)
        THEN Raise(src.db, "OperationalError")
        ELSE Ok(src.db,
                {r.id : r \in {x \in src.db.pendingpatches :
                                  /\ x.patchsource_id = src.ret
                                  /\ x.timestamp < tstamp}})

\* the rows of baseline joined with their test run
BaselineRows(d, repo_id) ==
    {i \in 1..Len(d.baseline) :
        /\ d.baseline[i].baserepo_id = repo_id
        /\ d.baseline[i].testrun_id \in 1..Len(d.testrun)}

\* ORDER BY baseline.commitdate DESC LIMIT 1: the rows the query may return
LatestOf(d, rows) ==
    {i \in rows : \A k \in rows :
        d.baseline[k].commitdate <= d.baseline[i].commitdate}

\* __get_baselineresult finding no row
get_baselineresult_NoRow(d, repo, commithash) ==
    Ok(get_repoid(d, repo).db, {})

\* SktDb.__get_baselineresult: ret is the set of values the call may
\* return, empty when it returns None
get_baselineresult(d, repo, commithash) ==
    LET rid  == get_repoid(d, repo)
        rows == {i \in BaselineRows(rid.db, rid.ret) :
                    rid.db.baseline[i].commitid = commithash}
    IN  Ok(rid.db,
           {rid.db.testrun[rid.db.baseline[i].testrun_id].result_id :
               i \in LatestOf(rid.db, rows)})

\* get_stable without "testrun.result_id = 0" in its WHERE clause
get_stable_AnyResult(d, repo) ==
    LET rid  == get_repoid(d, repo)
        rows == BaselineRows(rid.db, rid.ret)
    IN  Ok(rid.db,
           IF rows = {} THEN {None}
           ELSE {rid.db.baseline[i].commitid : i \in LatestOf(rid.db, rows)})

\* SktDb.get_stable: ret is the set of values the call may return (rows of
\* equal commit date come in an order SQLite does not fix)
get_stable(d, repo) ==
    LET rid  == get_repoid(d, repo)
        rows == {i \in BaselineRows(rid.db, rid.ret) :
                    rid.db.testrun[rid.db.baseline[i].testrun_id].result_id
                        = 0}
    IN  Ok(rid.db,
           IF rows = {} THEN {None}
           ELSE {rid.db.baseline[i].commitid : i \in LatestOf(rid.db, rows)})

\* a name a method body reads that is neither a parameter nor a global
Unbound(names, scope) == names \ scope # {}

\* INSERT OR REPLACE INTO pendingpatches (patch_id, timestamp), one row per
\* patch id: the row of that patch id, if any, goes, and the new row has no
\* pendingjob_id (NULL, here 0, which is no rowid)
RECURSIVE ReplacePending(_, _, _)
ReplacePending(rows, ids, tstamp) ==
    IF ids = << >> THEN rows
    ELSE ReplacePending(
            {r \in rows : r.patch_id # Head(ids)} \cup
                {[id |-> NextRowid(rows), patch_id |-> Head(ids),
                  timestamp |-> tstamp, pendingjob_id |-> 0]},
            Tail(ids), tstamp)

\* SktDb.set_patchset_pending(self, series_data), called at time t
set_patchset_pending(d, series_data, t) ==
    IF Unbound({"baseurl", "project_id"}, {"self", "series_data"})
    THEN Raise(d, "NameError")
    ELSE Ok([d EXCEPT !.pendingpatches = ReplacePending(@, series_data, t)],
            None)

\* __unset_patchset_pending deleting the rows of the patches of the list
unset_patchset_pending_Deleting(d, patch_id_list) ==
    Ok([d EXCEPT !.pendingpatches =
            {r \in @ : r.patch_id \notin Range(patch_id_list)}],
       None)

\* SktDb.__unset_patchset_pending(self, patch_id_list)
unset_patchset_pending(d, patch_id_list) ==
    IF Unbound({"patches"}, {"self", "patch_id_list"})
    THEN Raise(d, "NameError")
    ELSE IF Len(patch_id_list) # 1
    THEN Raise(d, "ProgrammingError")
    ELSE Ok([d EXCEPT !.pendingpatches =
                {r \in @ : r.patch_id # patch_id_list[1]}],
            None)

\* SktDb.commit_tested
commit_tested(d, patches) == unset_patchset_pending(d, patches)

\* __commit_testrun writing over the last row of a table that has one
commit_testrun_Overwrite(d, result, buildid) ==
    LET row == [result_id |-> result, build_id |-> buildid]
    IN  IF d.testrun = << >>
        THEN Ok([d EXCEPT !.testrun = << row >>], 1)
        ELSE Ok([d EXCEPT !.testrun = [@ EXCEPT ![Len(@)] = row]],
                Len(d.testrun))

\* SktDb.__commit_testrun
commit_testrun(d, result, buildid) ==
    Ok([d EXCEPT !.testrun =
            Append(@, [result_id |-> result, build_id |-> buildid])],
       Len(d.testrun) + 1)

\* the comparison with ">" for ">="
Supersedes_Strict(result, prev_res) == result > prev_res

\* the comparison with "<=" for ">="
Supersedes_NoWorse(result, prev_res) == result <= prev_res

\* no comparison: every rerun is linked
Supersedes_Always(result, prev_res) == TRUE

\* the comparison update_baseline makes between the new and the stored result
Supersedes(result, prev_res) == result >= prev_res

\* SktDb.update_baseline; ret is the line it logs after "previous result"
update_baseline(d, repo, commithash, commitdate, result, build_id) ==
    LET rid  == get_repoid(d, repo)
        run  == commit_testrun(rid.db, result, build_id)
        prev == get_baselineresult(run.db, repo, commithash)
    IN  IF prev.ret = {}
        THEN Ok([run.db EXCEPT !.baseline =
                    Append(@, [baserepo_id |-> rid.ret,
                               commitid |-> commithash,
                               commitdate |-> commitdate,
                               testrun_id |-> run.ret])],
                "creating baseline")
        ELSE IF \E p \in prev.ret : Supersedes(result, p)
        THEN Ok([run.db EXCEPT !.baseline =
                    [i \in 1..Len(@) |->
                        IF /\ @[i].commitid = commithash
                           /\ @[i].baserepo_id = rid.ret
                        THEN [@[i] EXCEPT !.testrun_id = run.ret]
                        ELSE @[i]]],
                "updating baseline")
        ELSE Ok(run.db, None)

----------------------------------------------------------------------------
(* The engine: class watcher *)

\* what the executor answers when check_pending asks about one build:
\* is_build_complete or get_build_status raises ("error"), the build is
\* running, or it is complete with status ABORTED or another status
Answers == {"error", "running", "ABORTED", "COMPLETED"}

\* what the executor answers to get_base_hash, get_base_commitdate and
\* get_result of a completed baseline build (ok = FALSE: one of them raises)
Fetches == [ok : {TRUE}, hash : Commits, result : Results] \cup
           {[ok |-> FALSE, hash |-> None, result |-> SUCCESS]}

PatchIds(rows) == {rows[i].patch_id : i \in 1..Len(rows)}

\* [x[1] for x in pending_patches]
PatchIdList(rows) == [i \in 1..Len(rows) |-> rows[i].patch_id]

Stop(d, tr, id, e) ==
    [db |-> d, exc |-> e, trace |-> Append(tr, Ev("raise", id, {}, e, 0))]

\* the baseline branch with remove_pending_job moved before the fetches
ReconcileBaseline_RemoveFirst(d, job, fetch, tr) ==
    LET tr1 == Append(tr, Ev("Baseline test completed", job.id, {}, "",
                             job.build_id))
        rm  == remove_pending_job(d, job.id)
    IN  IF rm.exc # "none" THEN Stop(d, tr1, job.id, rm.exc)
        ELSE IF ~fetch.ok THEN Stop(rm.db, tr1, job.id, "AdapterError")
        ELSE LET ub == update_baseline(rm.db, baserepo, fetch.hash,
                                       CommitDate(fetch.hash), fetch.result,
                                       job.build_id)
             IN  [db |-> ub.db, exc |-> "none",
                  trace |-> tr1 \o
                     << Ev("update_baseline", job.id, {}, fetch.hash,
                           fetch.result),
                        Ev("remove_pending_job", job.id, {}, "", 0) >>]

\* the baseline branch with the two store calls in the other order
ReconcileBaseline_DeleteBeforeWrite(d, job, fetch, tr) ==
    LET tr1 == Append(tr, Ev("Baseline test completed", job.id, {}, "",
                             job.build_id))
    IN  IF ~fetch.ok THEN Stop(d, tr1, job.id, "AdapterError")
        ELSE LET rm == remove_pending_job(d, job.id)
                 ub == update_baseline(rm.db, baserepo, fetch.hash,
                                       CommitDate(fetch.hash), fetch.result,
                                       job.build_id)
             IN  IF rm.exc # "none" THEN Stop(d, tr1, job.id, rm.exc)
                 ELSE [db |-> ub.db, exc |-> "none",
                       trace |-> tr1 \o
                          << Ev("remove_pending_job", job.id, {}, "", 0),
                             Ev("update_baseline", job.id, {}, fetch.hash,
                                fetch.result) >>]

\* watcher.check_pending, the baseline branch for one job
ReconcileBaseline(d, job, fetch, tr) ==
    LET tr1 == Append(tr, Ev("Baseline test completed", job.id, {}, "",
                             job.build_id))
    IN  IF ~fetch.ok THEN Stop(d, tr1, job.id, "AdapterError")
        ELSE LET ub == update_baseline(d, baserepo, fetch.hash,
                                       CommitDate(fetch.hash), fetch.result,
                                       job.build_id)
                 tr2 == Append(tr1, Ev("update_baseline", job.id, {},
                                       fetch.hash, fetch.result))
                 rm  == remove_pending_job(ub.db, job.id)
             IN  IF rm.exc # "none" THEN Stop(ub.db, tr2, job.id, rm.exc)
                 ELSE [db |-> rm.db, exc |-> "none",
                       trace |-> Append(tr2, Ev("remove_pending_job", job.id,
                                                {}, "", 0))]

\* watcher.check_pending, the patch branch for one job
ReconcilePatches(d, job, pending_patches, tr) ==
    LET tr1 == Append(tr, Ev("Patchwork test completed", job.id,
                             PatchIds(pending_patches), "", job.build_id))
        ct  == commit_tested(d, PatchIdList(pending_patches))
    IN  IF ct.exc # "none" THEN Stop(d, tr1, job.id, ct.exc)
        ELSE [db |-> ct.db, exc |-> "none",
              trace |-> Append(tr1, Ev("commit_tested", job.id,
                                       PatchIds(pending_patches), "", 0))]

\* the poll without the call of is_build_complete
Poll_NotAsked(tr, job, ans) == tr

\* watcher.check_pending, the poll of one job: jk.is_build_complete is
\* called and returns False for a running build, True for a complete one
Poll(tr, job, ans) ==
    Append(tr, Ev("is_build_complete", job.id, {},
                  IF ans = "running" THEN "False" ELSE "True", job.build_id))

\* the branch of a running job with the job removed as if it were aborted
StillRunning_Removed(d, job, tr) ==
    [db |-> remove_pending_job(d, job.id).db, exc |-> "none",
     trace |-> Append(tr, Ev("Job is still running", job.id, {}, "",
                             job.build_id))]

\* watcher.check_pending, a job whose build is still running: the log line,
\* then continue
StillRunning(d, job, tr) ==
    [db |-> d, exc |-> "none",
     trace |-> Append(tr, Ev("Job is still running", job.id, {}, "",
                             job.build_id))]

\* watcher.check_pending, the loop over the listed jobs
RECURSIVE CheckJobs(_, _, _, _, _)
CheckJobs(d, jobs, poll, fetch, tr) ==
    IF jobs = << >> THEN [db |-> d, exc |-> "none", trace |-> tr]
    ELSE
    LET job == Head(jobs)
        ans == poll[job.id]
        tr0 == Append(Poll(tr, job, ans),
                      Ev("get_build_status", job.id, {}, ans, job.build_id))
    IN  IF ans = "error" THEN Stop(d, tr, job.id, "AdapterError")
        ELSE IF ans = "running"
        THEN LET sr == StillRunning(d, job, Poll(tr, job, ans))
             IN  CheckJobs(sr.db, Tail(jobs), poll, fetch, sr.trace)
        ELSE IF ans = "ABORTED"
        THEN LET tr1 == Append(tr0, Ev("Test was aborted in Jenkins", job.id,
                                       {}, "", job.build_id))
                 rm  == remove_pending_job(d, job.id)
             IN  IF rm.exc # "none" THEN Stop(d, tr1, job.id, rm.exc)
                 ELSE CheckJobs(rm.db, Tail(jobs), poll, fetch,
                        Append(tr1,
                          Ev("remove_pending_job", job.id,
                             {r.patch_id : r \in
                                {x \in d.pendingpatches :
                                    x.pendingjob_id = job.id}}, "", 0)))
        ELSE LET pp == get_patches_for_job(d, job.id)
             IN  IF pp.exc # "none" THEN Stop(d, tr0, job.id, pp.exc)
                 ELSE IF pp.ret = << >>
                 THEN ReconcileBaseline(d, job, fetch, tr0)
                 ELSE LET rp == ReconcilePatches(d, job, pp.ret, tr0)
                      IN  IF rp.exc # "none" THEN rp
                          ELSE CheckJobs(rp.db, Tail(jobs), poll, fetch,
                                         rp.trace)

\* the answers of the executor that a pass with the given poll answers
\* asks for: those about a baseline build only if the pass gets to one
Asked(d, poll) ==
    LET NoFetch == [ok |-> FALSE, hash |-> None, result |-> SUCCESS]
        r == CheckJobs(d, get_pending_jobs(d).ret, poll, NoFetch, << >>)
    IN  IF \E i \in 1..Len(r.trace) :
              r.trace[i].call = "Baseline test completed"
        THEN Fetches ELSE {NoFetch}

\* watcher.check_pending
check_pending ==
    \E poll \in [{j.id : j \in db.pendingjobs} -> Answers] :
    \E fetch \in Asked(db, poll) :
        LET r == CheckJobs(db, get_pending_jobs(db).ret, poll, fetch, << >>)
        IN  /\ db' = r.db
            /\ op' = "check_pending"
            /\ trace' = r.trace
            /\ UNCHANGED <<now, next_build, pj, sched, jk>>

\* watcher.check_baseline; ok = FALSE: jk.build raises
check_baseline ==
    \E ok \in BOOLEAN :
        /\ Len(pj) < MaxBuilds
        /\ op' = "check_baseline"
        /\ IF ok
           THEN /\ next_build' = next_build + 1
                /\ pj' = Append(pj, <<BASELINE, next_build>>)
                /\ db' = add_pending_job(db, jobname, next_build).db
                /\ trace' = << Ev("build", 0, {}, "", next_build),
                               Ev("add_pending_job", NextRowid(db.pendingjobs),
                                  {}, "", next_build) >>
           ELSE /\ trace' = << Ev("raise", 0, {}, "AdapterError", 0) >>
                /\ UNCHANGED <<db, next_build, pj>>
        /\ UNCHANGED <<now, sched, jk>>

\* time passes
Tick ==
    \E t \in Times :
        /\ t > now
        /\ now' = t
        /\ op' = "tick"
        /\ trace' = << >>
        /\ UNCHANGED <<db, next_build, pj, sched, jk>>

----------------------------------------------------------------------------
(* watcher.check_patchwork *)

\* __commit_patch with INSERT for INSERT OR REPLACE and no key on id
commit_patch_Insert(d, patch_id, patch_name, patch_url, baseurl, project_id, patch_date) ==
    LET src == get_sourceid(d, baseurl, project_id)
    IN  Ok([src.db EXCEPT !.patch =
                @ \cup
                {[id |-> patch_id, name |-> patch_name, url |-> patch_url,
                  date |-> patch_date, patchsource_id |-> src.ret]}],
           None)

\* SktDb.__commit_patch: INSERT OR REPLACE INTO patch, keyed by id alone
commit_patch(d, patch_id, patch_name, patch_url, baseurl, project_id, patch_date) ==
    LET src == get_sourceid(d, baseurl, project_id)
    IN  Ok([src.db EXCEPT !.patch =
                {r \in @ : r.id # patch_id} \cup
                {[id |-> patch_id, name |-> patch_name, url |-> patch_url,
                  date |-> patch_date, patchsource_id |-> src.ret]}],
           None)

\* SktDb.commit_series
RECURSIVE commit_series(_, _)
commit_series(d, patches) ==
    IF patches = << >> THEN Ok(d, None)
    ELSE LET p == Head(patches)
         IN  commit_series(
                commit_patch(get_sourceid(d, p.baseurl, p.project_id).db,
                             p.patch_id, p.patch_name, p.patch_url,
                             p.baseurl, p.project_id, p.patch_date).db,
                Tail(patches))

\* the URL "<baseurl>/patch/<patch_id>" of a patch of a tracker
PatchUrl(baseurl, patch_id) == [baseurl |-> baseurl, patch_id |-> patch_id]

\* watcher.get_patch_info_from_url: baseurl and patch id are the two groups
\* of the URL, the rest is what the tracker serves (revision rev)
get_patch_info_from_url(interface, patch_url, rev) ==
    [patch_id   |-> patch_url.patch_id,
     patch_name |-> <<"name", patch_url.patch_id, rev>>,
     patch_url  |-> patch_url,
     baseurl    |-> patch_url.baseurl,
     project_id |-> interface.project_id,
     patch_date |-> rev]

\* filter_patchsets with every status but 0 taken as a rejection
RECURSIVE filter_patchsets_OtherDropped(_, _, _, _)
filter_patchsets_OtherDropped(series_summary_list, status, ready, dropped) ==
    IF series_summary_list = << >>
    THEN [exc |-> "none", ready |-> ready, dropped |-> dropped]
    ELSE LET series_summary == Head(series_summary_list)
         IN  IF status[series_summary.message_id] = 0
             THEN filter_patchsets_OtherDropped(
                     Tail(series_summary_list), status,
                     Append(ready, series_summary), dropped)
             ELSE filter_patchsets_OtherDropped(
                     Tail(series_summary_list), status,
                     ready, Append(dropped, series_summary))

\* watcher.filter_patchsets; status gives the filter's exit status per series
RECURSIVE filter_patchsets(_, _, _, _)
filter_patchsets(series_summary_list, status, ready, dropped) ==
    IF patch_filter = None
    THEN [exc |-> "none", ready |-> ready \o series_summary_list,
          dropped |-> dropped]
    ELSE IF series_summary_list = << >>
    THEN [exc |-> "none", ready |-> ready, dropped |-> dropped]
    ELSE LET series_summary == Head(series_summary_list)
             st == status[series_summary.message_id]
         IN  IF st = 0
             THEN filter_patchsets(Tail(series_summary_list), status,
                                   Append(ready, series_summary), dropped)
             ELSE IF st = 1
             THEN filter_patchsets(Tail(series_summary_list), status,
                                   ready, Append(dropped, series_summary))
             ELSE [exc |-> "Exception", ready |-> ready, dropped |-> dropped]

\* the log of filter_patchsets: one "Executing patch filter command" line
\* per series the filter is run on, carrying the exit status it ends with
RECURSIVE FilterLog(_, _)
FilterLog(series_summary_list, status) ==
    IF patch_filter = None \/ series_summary_list = << >> THEN << >>
    ELSE LET series_summary == Head(series_summary_list)
             st == status[series_summary.message_id]
         IN  << Ev("Executing patch filter command", 0,
                   Range(series_summary.patches),
                   series_summary.message_id, st) >>
             \o (IF st \in {0, 1}
                 THEN FilterLog(Tail(series_summary_list), status)
                 ELSE << >>)

\* the log lines "ready series" and "dropped series" of check_patchwork
SeriesLog(line, series_list) ==
    [k \in 1..Len(series_list) |->
        Ev(line, 0, Range(series_list[k].patches),
           series_list[k].message_id, 0)]

\* the loop over series_dropped: retrieve the patches' data and save them
RECURSIVE SaveDropped(_, _, _, _, _)
SaveDropped(d, cpw, dropped, rev, tr) ==
    IF dropped = << >> THEN [db |-> d, trace |-> tr]
    ELSE LET ids == Head(dropped).patches
             patches == [i \in 1..Len(ids) |->
                            get_patch_info_from_url(
                                cpw, PatchUrl(cpw.baseurl, ids[i]), rev)]
         IN  SaveDropped(commit_series(d, patches).db, cpw, Tail(dropped),
                         rev,
                         Append(tr, Ev("commit_series", 0, Range(ids), "",
                                       0)))

\* the sequence of the elements of a set of numbers, ascending
RECURSIVE Ascending(_)
Ascending(S) ==
    IF S = {} THEN << >>
    ELSE LET m == CHOOSE x \in S : \A y \in S : x <= y
         IN  <<m>> \o Ascending(S \ {m})

\* cpw.get_patchsets(patch ids): the series made of the given patches
get_patchsets(patch_ids) ==
    IF patch_ids = {} THEN << >>
    ELSE << [message_id |-> "expired", patches |-> Ascending(patch_ids)] >>

\* a call that passes nargs positional arguments to a method that takes
\* nparams besides self
Accepts(nparams, nargs) == nargs = nparams

\* for series in series_list: (re-)add the patches to the pending list,
\* submit a build, remember it in self.pj
RECURSIVE SubmitSeries(_, _, _, _, _)
SubmitSeries(st, cpw, series_list, t, tr) ==
    IF series_list = << >>
    THEN [db |-> st.db, exc |-> "none", trace |-> tr,
          next_build |-> st.next_build, pj |-> st.pj]
    ELSE
    LET series == Head(series_list)
    IN  IF ~Accepts(1, 3)
        THEN [db |-> st.db, exc |-> "TypeError",
              trace |-> Append(tr, Ev("raise", 0, Range(series.patches),
                                      "TypeError", 0)),
              next_build |-> st.next_build, pj |-> st.pj]
        ELSE
        LET sp == set_patchset_pending(st.db, series.patches, t)
        IN  IF sp.exc # "none"
            THEN [db |-> sp.db, exc |-> sp.exc,
                  trace |-> Append(tr, Ev("raise", 0, Range(series.patches),
                                          sp.exc, 0)),
                  next_build |-> st.next_build, pj |-> st.pj]
            ELSE SubmitSeries(
                    [db |-> sp.db, next_build |-> st.next_build + 1,
                     pj |-> Append(st.pj, <<PATCHWORK, st.next_build>>)],
                    cpw, Tail(series_list), t,
                    tr \o << Ev("set_patchset_pending", 0,
                                Range(series.patches), "", t),
                             Ev("build", 0, Range(series.patches), "",
                                st.next_build) >>)

\* the body of "for cpw in self.pw", and the rest of the loop
RECURSIVE CheckSources(_, _, _, _, _, _, _)
CheckSources(st, i, new_series, status, rev, t, tr) ==
    IF i > Len(PW)
    THEN [db |-> st.db, exc |-> "none", trace |-> tr,
          next_build |-> st.next_build, pj |-> st.pj]
    ELSE
    LET cpw == PW[i]
        f   == filter_patchsets(new_series, status, << >>, << >>)
        tr0 == tr \o FilterLog(new_series, status)
    IN  IF f.exc # "none"
        THEN [db |-> st.db, exc |-> f.exc,
              trace |-> Append(tr0, Ev("raise", 0, {}, f.exc, i)),
              next_build |-> st.next_build, pj |-> st.pj]
        ELSE
        LET sd  == SaveDropped(st.db, cpw, f.dropped, rev,
                               tr0 \o SeriesLog("ready series", f.ready)
                                   \o SeriesLog("dropped series", f.dropped))
            exp == get_expired_pending_patches(sd.db, cpw.baseurl,
                                               cpw.project_id, ExpiryWindow,
                                               t)
        IN  IF exp.exc # "none"
            THEN [db |-> exp.db, exc |-> exp.exc,
                  trace |-> Append(sd.trace, Ev("raise", 0, {}, exp.exc, i)),
                  next_build |-> st.next_build, pj |-> st.pj]
            ELSE
            LET sub == SubmitSeries(
                          [db |-> exp.db, next_build |-> st.next_build,
                           pj |-> st.pj],
                          cpw, f.ready \o get_patchsets(exp.ret), t,
                          Append(sd.trace,
                                 Ev("get_expired_pending_patches", 0,
                                    exp.ret, "", i)))
            IN  IF sub.exc # "none" THEN sub
                ELSE CheckSources(
                        [db |-> sub.db, next_build |-> sub.next_build,
                         pj |-> sub.pj],
                        i + 1, new_series, status, rev, t, sub.trace)

\* "if not stablecommit" with the condition never true
NoCommit_Never(stablecommit) == FALSE

\* "not stablecommit": get_stable returned None
NoCommit(stablecommit) == stablecommit = None

\* watcher.check_patchwork
check_patchwork ==
    \E new_series \in NewSeries, rev \in 1..MaxRev :
    \E status \in [{x.message_id : x \in Range(new_series)}
                      -> FilterStatuses] :
        LET gs == get_stable(db, baserepo)
        IN  \E stablecommit \in gs.ret :
            LET tr == << Ev("get_stable", 0, {}, stablecommit, 0) >>
                r  == IF NoCommit(stablecommit)
                      THEN [db |-> gs.db, exc |-> "Exception",
                            trace |-> Append(tr, Ev("raise", 0, {},
                                                    "Exception", 0)),
                            next_build |-> next_build, pj |-> pj]
                      ELSE CheckSources(
                              [db |-> gs.db, next_build |-> next_build,
                               pj |-> pj],
                              1, new_series, status, rev, now, tr)
            IN  /\ Len(r.pj) <= MaxBuilds
                /\ db' = r.db
                /\ next_build' = r.next_build
                /\ pj' = r.pj
                /\ op' = "check_patchwork"
                /\ trace' = r.trace
                /\ UNCHANGED <<now, sched, jk>>

----------------------------------------------------------------------------
(* Store methods called directly *)

Call_set_patchset_pending ==
    \E series_data \in SeriesData :
        LET r == set_patchset_pending(db, series_data, now)
        IN  /\ db' = r.db
            /\ op' = "set_patchset_pending"
            /\ trace' = << Ev("set_patchset_pending", 0, Range(series_data),
                              r.exc, now) >>
            /\ UNCHANGED <<now, next_build, pj, sched, jk>>

Call_commit_tested ==
    \E patches \in SeriesData :
        LET r == commit_tested(db, patches)
        IN  /\ db' = r.db
            /\ op' = "commit_tested"
            /\ trace' = << Ev("commit_tested", 0, Range(patches), r.exc,
                              0) >>
            /\ UNCHANGED <<now, next_build, pj, sched, jk>>

Call_add_pending_job ==
    \E build_id \in BuildArgs :
        LET r == add_pending_job(db, jobname, build_id)
        IN  /\ Cardinality(db.pendingjobs) < MaxJobRows
            /\ db' = r.db
            /\ op' = "add_pending_job"
            /\ trace' = << Ev("add_pending_job", NextRowid(db.pendingjobs),
                              {}, r.exc, build_id) >>
            /\ UNCHANGED <<now, next_build, pj, sched, jk>>

Call_remove_pending_job ==
    \E j \in db.pendingjobs :
        LET r == remove_pending_job(db, j.id)
        IN  /\ db' = r.db
            /\ op' = "remove_pending_job"
            /\ trace' = << Ev("remove_pending_job", j.id,
                              {x.patch_id : x \in
                                 {y \in db.pendingpatches :
                                     y.pendingjob_id = j.id}},
                              r.exc, 0) >>
            /\ UNCHANGED <<now, next_build, pj, sched, jk>>

Call_get_expired_pending_patches ==
    \E i \in 1..Len(PW), exptime \in Windows :
        LET r == get_expired_pending_patches(db, PW[i].baseurl,
                                             PW[i].project_id, exptime, now)
        IN  /\ db' = r.db
            /\ op' = "get_expired_pending_patches"
            /\ trace' = << Ev("get_expired_pending_patches", i,
                              IF r.exc = "none" THEN r.ret ELSE {},
                              r.exc, exptime) >>
            /\ UNCHANGED <<now, next_build, pj, sched, jk>>

Call_update_baseline ==
    \E repo \in Repos, commithash \in Commits, result \in Results :
        LET r == update_baseline(db, repo, commithash, CommitDate(commithash),
                                 result, next_build)
        IN  /\ Len(db.testrun) < MaxTestRuns
            /\ db' = r.db
            /\ next_build' = next_build + 1
            /\ op' = "update_baseline"
            /\ trace' = << Ev("update_baseline", 0, {}, commithash, result),
                           Ev(r.ret, 0, {}, repo, 0) >>
            /\ UNCHANGED <<now, pj, sched, jk>>

Call_get_stable ==
    \E repo \in Repos :
        LET r == get_stable(db, repo)
        IN  \E commit \in r.ret :
                /\ db' = r.db
                /\ op' = "get_stable"
                /\ trace' = << Ev("get_stable", 0, {}, repo, 0),
                               Ev("return", 0, {}, commit, 0) >>
                /\ UNCHANGED <<now, next_build, pj, sched, jk>>

\* the patch info tuples of the patches ids of the tracker project cpw
PatchInfos(cpw, ids, rev) ==
    [k \in 1..Len(ids) |->
        get_patch_info_from_url(cpw, PatchUrl(cpw.baseurl, ids[k]), rev)]

\* SktDb.commit_series called with the info of the patches of one project
Call_commit_series ==
    \E i \in 1..Len(PW), ids \in PatchLists, rev \in 1..MaxRev :
        LET r == commit_series(db, PatchInfos(PW[i], ids, rev))
        IN  /\ db' = r.db
            /\ op' = "commit_series"
            /\ trace' = << Ev("commit_series", i, Range(ids), r.exc, rev) >>
            /\ UNCHANGED <<now, next_build, pj, sched, jk>>

\* watcher.filter_patchsets called on a list of series summaries; the trace
\* holds the arguments (with the status the filter ends with for each) and
\* the two lists returned, or the exception
Call_filter_patchsets ==
    \E l \in SeriesLists :
    \E status \in [{x.message_id : x \in Range(l)} -> FilterStatuses] :
        LET f == filter_patchsets(l, status, << >>, << >>)
        IN  /\ op' = "filter_patchsets"
            /\ trace' =
                  [k \in 1..Len(l) |->
                      Ev("series_summary", 0, Range(l[k].patches),
                         l[k].message_id, status[l[k].message_id])]
                  \o (IF f.exc # "none"
                      THEN << Ev("raise", 0, {}, f.exc, 0) >>
                      ELSE SeriesLog("ready", f.ready)
                           \o SeriesLog("dropped", f.dropped))
            /\ UNCHANGED <<db, now, next_build, pj, sched, jk>>

----------------------------------------------------------------------------
(* The local scheduler: sktm/scheduler.py, classes DirectRun and Direct *)

\* Python compiles the whole file before it runs any statement of it.  The
\* lines the compiler stops at: the def of DirectRun.__init__ has no colon,
\* and an assignment in DirectRun.start has no right-hand side
SyntaxErrorLines == {22, 69}

\* the names bound at module level: two class statements, no import
ModuleNames == {"DirectRun", "Direct"}

\* the result of a scheduler call: the schedulers after it, the exception it
\* ends with ("none" when it returns) and the value returned
SOk(s, r) == [sched |-> s, exc |-> "none", ret |-> r]
SRaise(s, e) == [sched |-> s, exc |-> e, ret |-> None]

\* one entry of `trace` for a scheduler call: its arguments and its outcome
SchedEv(call, args, res) == [call |-> call, args |-> args, res |-> res]

\* import sktm.scheduler
import_scheduler(s) ==
    IF SyntaxErrorLines # {} THEN SRaise(s, "SyntaxError") ELSE SOk(s, None)

\* the parameters of DirectRun.__init__ and the keywords Direct.submit
\* calls it with
DirectRunParams ==
    {"work_dir", "work_url", "skt_work_dir", "baserepo", "baseref",
     "baseconfig", "message_id", "subject", "emails", "patch_url_list",
     "makeopts"}
DirectRunKeywords ==
    {"dir", "url", "skt_dir", "baserepo", "baseref", "baseconfig",
     "message_id", "subject", "emails", "patch_url_list", "makeopts"}

\* DirectRun(...) as Direct.submit calls it: the keywords are matched with
\* the parameters, then the body reads url and skt_dir.  No statement of
\* __init__ sets started
DirectRun_init(repo, baseref, patch_url_list) ==
    IF ~(DirectRunKeywords \subseteq DirectRunParams)
    THEN SRaise(<< >>, "TypeError")
    ELSE IF ~({"url", "skt_dir"} \subseteq DirectRunParams)
    THEN SRaise(<< >>, "NameError")
    ELSE SOk(<< >>, [baserepo |-> repo, baseref |-> baseref,
                     patch_url_list |-> patch_url_list, started |-> FALSE])

\* DirectRun.start, called as run.start(): def start() has no parameter
DirectRun_start(s, o, run_id) ==
    IF ~Accepts(0, 1) THEN SRaise(s, "TypeError")
    ELSE IF ~({"os", "urlparse"} \subseteq ModuleNames)
    THEN SRaise(s, "NameError")
    ELSE SOk([s EXCEPT ![o].run_map[run_id + 1].started = TRUE], None)

\* DirectRun.abort, called as run.abort(): def abort() has no parameter and
\* no statement but its docstring
DirectRun_abort(s, o, run_id) ==
    IF ~Accepts(0, 1) THEN SRaise(s, "TypeError") ELSE SOk(s, None)

\* the attributes Direct.__init__ sets
DirectAttributes ==
    {"dir", "httpd_pid", "url", "skt_dir", "public_hostname", "port",
     "beaker_job_template", "parallel_run_num", "run_id", "run_map"}

\* Direct(...): the attributes are set, then tempfile.mkdtemp is looked up
Direct_init(s, parallel_run_num) ==
    IF ~({"tempfile", "os"} \subseteq ModuleNames)
    THEN SRaise(s, "NameError")
    ELSE SOk(Append(s, [parallel_run_num |-> parallel_run_num,
                        run_id |-> 0, run_map |-> << >>]),
             Len(s) + 1)

\* Direct.__update, called as self.__update(): def __update() has no
\* parameter.  Its body asks every run of run_map is_active(), which
\* DirectRun does not have, and its while loop never changes the
\* parallel_run_num it tests
update(s, o) ==
    IF ~Accepts(0, 1) THEN SRaise(s, "TypeError")
    ELSE IF s[o].run_map # << >> THEN SRaise(s, "AttributeError")
    ELSE IF s[o].parallel_run_num > 0 THEN SRaise(s, "no return")
    ELSE SOk(s, None)

\* Direct.submit on scheduler o: the run id is taken, os.path.join and
\* urlparse.urljoin are looked up, the run is created, it is stored in
\* job_map (not run_map), the next id is advanced and __update is called
submit(s, o, repo, baseref, patch_url_list) ==
    LET run_id == s[o].run_id
        run == DirectRun_init(repo, baseref, patch_url_list)
    IN  IF ~({"os", "urlparse"} \subseteq ModuleNames)
        THEN SRaise(s, "NameError")
        ELSE IF run.exc # "none" THEN SRaise(s, run.exc)
        ELSE IF "job_map" \notin DirectAttributes
        THEN SRaise(s, "AttributeError")
        ELSE LET u == update([s EXCEPT ![o].run_id = @ + 1], o)
             IN  IF u.exc # "none" THEN u ELSE SOk(u.sched, run_id)

\* the scheduler a caller works with: the one constructed before, or else
\* import sktm.scheduler and Direct(..., parallel_run_num)
TheDirect(s, parallel_run_num) ==
    IF s # << >> THEN SOk(s, 1)
    ELSE LET i == import_scheduler(s)
         IN  IF i.exc # "none" THEN i ELSE Direct_init(s, parallel_run_num)

\* a scheduler is constructed
Call_Direct ==
    \E parallel_run_num \in 1..MaxParallel :
        LET r == TheDirect(sched, parallel_run_num)
        IN  /\ sched' = r.sched
            /\ op' = "Direct"
            /\ trace' = << SchedEv("Direct",
                             [parallel_run_num |-> parallel_run_num],
                             r.exc) >>
            /\ UNCHANGED <<db, now, next_build, pj, jk>>

\* a run is submitted to the scheduler; this is also the scheduling tick,
\* which submit ends with
Call_submit ==
    \E parallel_run_num \in 1..MaxParallel, repo \in Repos :
    \E baseref \in Commits, patch_url_list \in PatchUrlLists :
        LET d == TheDirect(sched, parallel_run_num)
            r == IF d.exc # "none" THEN d
                 ELSE submit(d.sched, d.ret, repo, baseref,
                             patch_url_list)
        IN  /\ sched' = r.sched
            /\ op' = "submit"
            /\ trace' = << SchedEv("submit",
                             [parallel_run_num |-> parallel_run_num,
                              baserepo |-> repo, baseref |-> baseref,
                              patch_url_list |-> patch_url_list],
                             r.exc) >>
            /\ UNCHANGED <<db, now, next_build, pj, jk>>

\* the scheduling tick is run on the scheduler: Direct.__update
Call_update ==
    \E parallel_run_num \in 0..MaxParallel :
        LET d == TheDirect(sched, parallel_run_num)
            r == IF d.exc # "none" THEN d ELSE update(d.sched, d.ret)
        IN  /\ sched' = r.sched
            /\ op' = "__update"
            /\ trace' = << SchedEv("__update",
                             [parallel_run_num |-> parallel_run_num],
                             r.exc) >>
            /\ UNCHANGED <<db, now, next_build, pj, jk>>

\* a run of the scheduler is started: run_map[run_id].start()
Call_start ==
    \E parallel_run_num \in 1..MaxParallel, run_id \in 0..MaxRunId :
        LET d == TheDirect(sched, parallel_run_num)
            r == IF d.exc # "none" THEN d
                 ELSE IF run_id + 1 > Len(d.sched[d.ret].run_map)
                 THEN SRaise(d.sched, "KeyError")
                 ELSE DirectRun_start(d.sched, d.ret, run_id)
        IN  /\ sched' = r.sched
            /\ op' = "start"
            /\ trace' = << SchedEv("start",
                             [parallel_run_num |-> parallel_run_num,
                              run_id |-> run_id],
                             r.exc) >>
            /\ UNCHANGED <<db, now, next_build, pj, jk>>

\* a run of the scheduler is aborted: run_map[run_id].abort()
Call_abort ==
    \E parallel_run_num \in 1..MaxParallel, run_id \in 0..MaxRunId :
        LET d == TheDirect(sched, parallel_run_num)
            r == IF d.exc # "none" THEN d
                 ELSE IF run_id + 1 > Len(d.sched[d.ret].run_map)
                 THEN SRaise(d.sched, "KeyError")
                 ELSE DirectRun_abort(d.sched, d.ret, run_id)
        IN  /\ sched' = r.sched
            /\ op' = "abort"
            /\ trace' = << SchedEv("abort",
                             [parallel_run_num |-> parallel_run_num,
                              run_id |-> run_id],
                             r.exc) >>
            /\ UNCHANGED <<db, now, next_build, pj, jk>>

----------------------------------------------------------------------------
(* The executor adapter: sktm/jenkins.py, JenkinsProject.build *)

\* " ".join(patch_url_list), for the lists of BuildPatchLists
Join(patch_url_list) ==
    IF Len(patch_url_list) = 1 THEN patch_url_list[1] ELSE ""

\* the params dict build() fills, as a set of <<name, value>>: baserepo and
\* ref are in it when not None, patchwork when the list is not empty
BuildParams(repo, ref, patch_url_list) ==
    {<<"baserepo", repo>>, <<"ref", ref>>} \cup
    (IF patch_url_list # << >>
     THEN {<<"patchwork", Join(patch_url_list)>>} ELSE {})

BuildParamSets ==
    {BuildParams(baserepo, ref, l) : ref \in BuildRefs, l \in BuildPatchLists}

\* JenkinsProject.__params_eq: no parameter of the build has a name that is
\* in params with another value
params_eq(build, params) ==
    \A bp \in build.params : \A x \in params :
        bp[1] = x[1] => bp[2] = x[2]

\* JenkinsProject.__find_build once its two waiting loops are left: the
\* last build if its parameters match, else the first build of
\* job.get_build_ids() whose parameters match (ret is the set of numbers
\* the call may return: the order of the ids is the library's), else None
\* (here 0)
find_build(builds, params) ==
    LET lbuild   == Len(builds)
        matching == {bid \in 1..Len(builds) : params_eq(builds[bid], params)}
    IN  IF params_eq(builds[lbuild], params) THEN {lbuild}
        ELSE IF matching # {} THEN matching
        ELSE {0}

\* no build() call yet, no build of the project
NoJenkins ==
    [builds |-> << >>, queue |-> << >>, reqs |-> 0, pc |-> "idle",
     params |-> {}, eid |-> 0, req |-> 0, ret |-> 0, exc |-> "none"]

\* JenkinsProject.build up to get_next_build_number(): params is filled and
\* the number of the project's next build is read
Build_read ==
    \E ref \in BuildRefs, patch_url_list \in BuildPatchLists :
        /\ jk.pc \in {"idle", "done"}
        /\ jk.reqs < MaxRequests
        /\ jk' = [jk EXCEPT !.pc = "read",
                            !.params = BuildParams(baserepo, ref,
                                                   patch_url_list),
                            !.eid = Len(jk.builds) + 1,
                            !.req = jk.reqs + 1,
                            !.reqs = @ + 1,
                            !.ret = 0, !.exc = "none"]
        /\ op' = "get_next_build_number"
        /\ trace' = << >>
        /\ UNCHANGED <<db, now, next_build, pj, sched>>

\* JenkinsProject.build, server.build_job: the request is queued
Build_submit ==
    /\ jk.pc = "read"
    /\ jk' = [jk EXCEPT !.pc = "submitted",
                        !.queue = Append(@, [params |-> jk.params,
                                             req |-> jk.req])]
    /\ op' = "build_job"
    /\ trace' = << >>
    /\ UNCHANGED <<db, now, next_build, pj, sched>>

\* JenkinsProject.build, __find_build and get_number: enabled when a last
\* build exists and its number is not below the expected one
Build_find ==
    /\ jk.pc = "submitted"
    /\ jk.builds # << >>
    /\ Len(jk.builds) >= jk.eid
    /\ \E bid \in find_build(jk.builds, jk.params) :
          jk' = [jk EXCEPT !.pc = "done", !.ret = bid,
                           !.exc = IF bid = 0 THEN "AttributeError"
                                   ELSE "none"]
    /\ op' = "find_build"
    /\ trace' = << >>
    /\ UNCHANGED <<db, now, next_build, pj, sched>>

\* another client of the Jenkins server requests a build of the project
Other_build ==
    \E params \in BuildParamSets :
        /\ jk.reqs < MaxRequests
        /\ jk' = [jk EXCEPT !.reqs = @ + 1,
                            !.queue = Append(@, [params |-> params,
                                                 req |-> jk.reqs + 1])]
        /\ op' = "other_build"
        /\ trace' = << >>
        /\ UNCHANGED <<db, now, next_build, pj, sched>>

\* Jenkins starts the oldest queued request: it becomes the next build
Jenkins_start ==
    /\ jk.queue # << >>
    /\ jk' = [jk EXCEPT !.builds = Append(@, Head(jk.queue)),
                        !.queue = Tail(@)]
    /\ op' = "jenkins_start"
    /\ trace' = << >>
    /\ UNCHANGED <<db, now, next_build, pj, sched>>

----------------------------------------------------------------------------
(* The database files the process may be started on *)

\* no file: __createdb
FreshDb == createdb

\* a series of two patches submitted and pending since time 0 and a
\* baseline build pending, with a stable baseline for the configured
\* repository and one for another repository
SeriesPendingDb ==
    [baserepo       |-> << "Q", "R" >>,
     patchsource    |-> << <<"P", 1>> >>,
     patch          |-> {[id |-> i, name |-> <<"name", i, 1>>,
                          url |-> PatchUrl("P", i), date |-> 1,
                          patchsource_id |-> 1] : i \in {101, 102}},
     pendingpatches |-> {[id |-> 1, patch_id |-> 101, timestamp |-> 0,
                          pendingjob_id |-> 1],
                         [id |-> 2, patch_id |-> 102, timestamp |-> 0,
                          pendingjob_id |-> 1]},
     pendingjobs    |-> {[id |-> 1, job_name |-> jobname, build_id |-> 3],
                         [id |-> 2, job_name |-> jobname, build_id |-> 4]},
     testrun        |-> << [result_id |-> SUCCESS, build_id |-> 1],
                           [result_id |-> SUCCESS, build_id |-> 2] >>,
     baseline       |-> << [baserepo_id |-> 1, commitid |-> "c3",
                            commitdate |-> 2, testrun_id |-> 1],
                           [baserepo_id |-> 2, commitid |-> "c1",
                            commitdate |-> 1, testrun_id |-> 2] >>]

\* nine baseline builds submitted, the first eight aborted and removed
LateJobDb ==
    [createdb EXCEPT
        !.pendingjobs = {[id |-> 9, job_name |-> jobname, build_id |-> 9]}]

DbFiles == {FreshDb, SeriesPendingDb, LateJobDb}

BuildsOf(d) ==
    {j.build_id : j \in d.pendingjobs} \cup
    {d.testrun[i].build_id : i \in 1..Len(d.testrun)}

Init ==
    /\ db \in DbFiles
    /\ now = 0
    /\ next_build = IF BuildsOf(db) = {} THEN 1 ELSE Max(BuildsOf(db)) + 1
    /\ pj = << >>
    /\ op = "init"
    /\ trace = << >>
    /\ sched = << >>
    /\ jk = NoJenkins

\* the baseline-refresh and reconciliation cycles: builds are submitted for
\* the baseline and pending jobs are checked, in any order
Next ==
    \/ check_baseline
    \/ check_pending

Spec == Init /\ [][Next]_vars

\* the ingest cycle, run again and again as time passes.  It writes the
\* repository, patch source and patch tables only, which the handlers of
\* Next do not read (but for the repository's id)
NextIngest ==
    \/ Tick
    \/ check_patchwork

SpecIngest == Init /\ [][NextIngest]_vars

\* any sequence of calls of the store's methods about pending state
NextStore ==
    \/ Tick
    \/ Call_add_pending_job
    \/ Call_set_patchset_pending
    \/ Call_commit_tested
    \/ Call_remove_pending_job
    \/ Call_get_expired_pending_patches

SpecStore == Init /\ [][NextStore]_vars

\* any sequence of calls of update_baseline and get_stable
NextBaseline ==
    \/ Call_update_baseline
    \/ Call_get_stable

SpecBaseline == Init /\ [][NextBaseline]_vars

\* any sequence of calls of commit_series
NextPatches == Call_commit_series

SpecPatches == Init /\ [][NextPatches]_vars

\* calls of filter_patchsets
NextFilter == Call_filter_patchsets

SpecFilter == Init /\ [][NextFilter]_vars

\* the life of a patch series: the ingest cycle and the reconciliation
\* cycle, in any order (neither reads the clock but for the expiry query,
\* whose outcome does not depend on it)
NextCycle ==
    \/ check_patchwork
    \/ check_pending

SpecCycle == Init /\ [][NextCycle]_vars

\* the baseline-refresh and reconciliation cycles, and calls of the two
\* store methods that write and delete pendingpatches rows without the job
NextPending ==
    \/ check_baseline
    \/ check_pending
    \/ Call_set_patchset_pending
    \/ Call_commit_tested

SpecPending == Init /\ [][NextPending]_vars

\* calls of JenkinsProject.build, one after the other, while other
\* clients request builds of the same project and Jenkins starts them
NextBuild ==
    \/ Build_read
    \/ Build_submit
    \/ Build_find
    \/ Other_build
    \/ Jenkins_start

SpecBuild == Init /\ [][NextBuild]_vars

\* any sequence of calls of the local scheduler
NextLocal ==
    \/ Call_Direct
    \/ Call_submit
    \/ Call_update
    \/ Call_start
    \/ Call_abort

SpecLocal == Init /\ [][NextLocal]_vars

----------------------------------------------------------------------------
(* Properties *)

JobIds(d) == {j.id : j \in d.pendingjobs}
RowsOfJob(d, id) == {r \in d.pendingpatches : r.pendingjob_id = id}
RowsOfPatch(d, p) == {r \in d.pendingpatches : r.patch_id = p}
Events(tr, call) == {e \in Range(tr) : e.call = call}
TestedBuilds(d) == {d.testrun[i].build_id : i \in 1..Len(d.testrun)}

\* the baseline rows of a repository (by url) and commit
RowsOfCommit(d, repo, commit) ==
    {i \in 1..Len(d.baseline) :
        /\ d.baseline[i].commitid = commit
        /\ d.baseline[i].baserepo_id \in 1..Len(d.baserepo)
        /\ d.baserepo[d.baseline[i].baserepo_id] = repo}

ResultOfRow(d, i) == d.testrun[d.baseline[i].testrun_id].result_id

\* the pending patches of a patch source (by position in PW)
PendingOfSource(d, i) ==
    {r \in d.pendingpatches :
        \E q \in d.patch :
            /\ q.id = r.patch_id
            /\ q.patchsource_id \in 1..Len(d.patchsource)
            /\ d.patchsource[q.patchsource_id]
                  = <<PW[i].baseurl, PW[i].project_id>>}

\* C1: no patch id has two pendingpatches rows, and marking patches pending
\* leaves each of them with the one row written by that call, also when it
\* was pending before (stated as a property of every state after a store
\* call; set_patchset_pending raises NameError and writes nothing)
C1_MarkedOnce ==
    /\ \A r1, r2 \in db.pendingpatches :
          r1.patch_id = r2.patch_id => r1 = r2
    /\ op = "set_patchset_pending" =>
          \A p \in trace[1].patches :
              /\ Cardinality(RowsOfPatch(db, p)) = 1
              /\ \A r \in RowsOfPatch(db, p) : r.timestamp = trace[1].n

\* C2: a pass of check_pending that finds a job complete and not aborted
\* calls update_baseline for it if it had no pendingpatches row (unless the
\* executor fails to give the build's data), and if it had one, commits a
\* test run for its build, removes the job and does not call update_baseline
C2_JobTypeDiscrimination ==
    [][op' = "check_pending" =>
        \A e \in Events(trace', "get_build_status") :
            e.res # "ABORTED" =>
                IF RowsOfJob(db, e.job) = {}
                THEN \E u \in Range(trace') :
                        /\ u.job = e.job
                        /\ \/ u.call = "update_baseline"
                           \/ u.call = "raise" /\ u.res = "AdapterError"
                ELSE /\ e.n \in TestedBuilds(db')
                     /\ e.job \notin JobIds(db')
                     /\ \A u \in Events(trace', "update_baseline") :
                           u.job # e.job]_vars

\* C3: update_baseline creates the baseline row of (repo, commit) when there
\* is none; when there is one it links the row to the new test run if
\* result >= the result the row was linked to, and leaves it as it is if not
C3_BaselineOrdering ==
    [][op' = "update_baseline" =>
        LET commit == trace'[1].res
            result == trace'[1].n
            repo   == trace'[2].res
            run    == Len(db'.testrun)
            prev   == RowsOfCommit(db, repo, commit)
        IN  /\ run = Len(db.testrun) + 1
            /\ IF prev = {}
               THEN /\ Len(db'.baseline) = Len(db.baseline) + 1
                    /\ RowsOfCommit(db', repo, commit) = {Len(db'.baseline)}
                    /\ db'.baseline[Len(db'.baseline)].testrun_id = run
                    /\ \A i \in 1..Len(db.baseline) :
                          db'.baseline[i] = db.baseline[i]
               ELSE /\ Len(db'.baseline) = Len(db.baseline)
                    /\ \A i \in 1..Len(db.baseline) :
                          IF i \in prev /\ result >= ResultOfRow(db, i)
                          THEN db'.baseline[i] =
                                 [db.baseline[i] EXCEPT !.testrun_id = run]
                          ELSE db'.baseline[i] = db.baseline[i]]_vars

\* C3, reached: update_baseline relinked an existing row to a new test run
\* whose result equals that of an earlier test run (the ">=" boundary)
C3_Relinked ==
    /\ op = "update_baseline"
    /\ trace[2].call = "updating baseline"
    /\ Len(db.testrun) > 1
    /\ \E i \in RowsOfCommit(db, trace[2].res, trace[1].res) :
          \E k \in 1..(Len(db.testrun) - 1) :
              /\ db.baseline[i].testrun_id = Len(db.testrun)
              /\ db.testrun[k].result_id = trace[1].n

\* C4: get_stable(repo) returns the commit of a baseline row of that repo
\* whose test run has result SUCCESS and whose commit date no other such row
\* exceeds, and None when the repo has no such row
C4_StableIsLatestSuccess ==
    op = "get_stable" =>
        LET repo == trace[1].res
            ret  == trace[2].res
            good == {i \in 1..Len(db.baseline) :
                        /\ db.baserepo[db.baseline[i].baserepo_id] = repo
                        /\ ResultOfRow(db, i) = SUCCESS}
        IN  IF good = {} THEN ret = None
            ELSE \E i \in good :
                    /\ db.baseline[i].commitid = ret
                    /\ \A k \in good :
                          db.baseline[k].commitdate
                              <= db.baseline[i].commitdate

\* C4, reached: get_stable returned a commit while a row of the same repo
\* with a later date and a result other than SUCCESS exists
C4_LaterFailureSkipped ==
    /\ op = "get_stable"
    /\ trace[2].res # None
    /\ \E i, k \in 1..Len(db.baseline) :
          /\ db.baseline[i].baserepo_id = db.baseline[k].baserepo_id
          /\ db.baserepo[db.baseline[i].baserepo_id] = trace[1].res
          /\ db.baseline[i].commitid = trace[2].res
          /\ db.baseline[k].commitdate > db.baseline[i].commitdate
          /\ ResultOfRow(db, k) # SUCCESS

\* C5: get_expired_pending_patches(source, window), called at time now,
\* returns exactly the patches of the source marked pending at a time T
\* with now - T >= window
C5_ExpiredIff ==
    op = "get_expired_pending_patches" =>
        /\ trace[1].res = "none"
        /\ trace[1].patches =
              {r.patch_id : r \in
                  {x \in PendingOfSource(db, trace[1].job) :
                      now - x.timestamp >= trace[1].n}}

\* C6: after a pass of check_pending that found a job with patches complete
\* and not aborted, a testrun row carries the job's build id, and the job's
\* pendingjobs row and pendingpatches rows are gone
C6_PatchJobReconciled ==
    op = "check_pending" =>
        \A e \in Events(trace, "Patchwork test completed") :
            /\ e.n \in TestedBuilds(db)
            /\ e.job \notin JobIds(db)
            /\ RowsOfJob(db, e.job) = {}
            /\ \A p \in e.patches : RowsOfPatch(db, p) = {}

\* C7: a job that a pass of check_pending took through the baseline branch
\* (update_baseline called) or the patch branch is not listed by
\* get_pending_jobs after that pass
C7_ReconciledJobGone ==
    op = "check_pending" =>
        \A e \in Events(trace, "update_baseline")
                    \cup Events(trace, "Patchwork test completed") :
            \A i \in 1..Len(get_pending_jobs(db).ret) :
                get_pending_jobs(db).ret[i].id # e.job

\* C8: after a pass of check_pending in which the executor reported a job
\* ABORTED, the job's pendingjobs row and pendingpatches rows are gone and
\* no testrun row carries the job's build id
C8_AbortedJobDiscarded ==
    op = "check_pending" =>
        \A e \in Events(trace, "Test was aborted in Jenkins") :
            /\ e.job \notin JobIds(db)
            /\ RowsOfJob(db, e.job) = {}
            /\ e.n \notin TestedBuilds(db)

\* the patches of the aborted jobs the last pass of check_pending discarded
DiscardedPatches ==
    UNION {e.patches : e \in
              {x \in Events(trace, "remove_pending_job") :
                  \E a \in Events(trace, "Test was aborted in Jenkins") :
                      a.job = x.job}}

C10_ExpiredResubmitted ==
    [][(op' = "check_patchwork" /\ trace'[1].res # None) =>
        \A r \in db.pendingpatches :
            now - r.timestamp > ExpiryWindow =>
                /\ Cardinality(RowsOfPatch(db', r.patch_id)) = 1
                /\ \A x \in RowsOfPatch(db', r.patch_id) :
                      /\ x.timestamp = now
                      /\ x.pendingjob_id # r.pendingjob_id
                      /\ x.pendingjob_id \in JobIds(db') \ JobIds(db)]_vars

\* C11: when the executor reports the job of a patch series complete and
\* not aborted, that pass of check_pending records a test run for its
\* build, removes its pending job and leaves its patches without
\* pendingpatches rows; and the expiry path of check_patchwork resubmits
\* only patches that have a pendingpatches row
C11_SeriesJobLifecycle ==
    [][/\ op' = "check_pending" =>
            \A e \in Events(trace', "get_build_status") :
                (e.res = "COMPLETED" /\ RowsOfJob(db, e.job) # {}) =>
                    /\ e.n \in TestedBuilds(db') \ TestedBuilds(db)
                    /\ e.job \notin JobIds(db')
                    /\ \A r \in RowsOfJob(db, e.job) :
                          RowsOfPatch(db', r.patch_id) = {}
       /\ op' = "check_patchwork" =>
            \A e \in Events(trace', "get_expired_pending_patches") :
                \A p \in e.patches : RowsOfPatch(db, p) # {}]_vars

C14_RestStillChecked ==
    [][(op' = "check_pending" /\ Events(trace', "raise") # {}) =>
          \A id \in JobIds(db) :
              \E e \in Range(trace') : e.job = id]_vars

\* C15: a pass of check_pending deletes the pendingjobs row or a
\* pendingpatches row of a job only if is_build_complete and
\* get_build_status returned for it in that pass and, when it took the
\* baseline branch, the hash, commit date and result fetches returned too;
\* a job for which one of them raised keeps its rows
C15_DeleteOnlyAfterRoundTrip ==
    [][op' = "check_pending" =>
          \A j \in db.pendingjobs :
              (\/ j \notin db'.pendingjobs
               \/ RowsOfJob(db', j.id) # RowsOfJob(db, j.id)) =>
                  /\ \E e \in Events(trace', "get_build_status") :
                        e.job = j.id
                  /\ (\E e \in Events(trace', "Baseline test completed") :
                         e.job = j.id)
                     => \E u \in Events(trace', "update_baseline") :
                           u.job = j.id
                  /\ \A e \in Events(trace', "raise") :
                        e.job = j.id => e.res # "AdapterError"]_vars

\* C15, reached: in one pass a job was deleted after its round trip and a
\* baseline job whose fetch raised kept its row
C15_FetchRaisedJobKept ==
    /\ op = "check_pending"
    /\ Events(trace, "remove_pending_job") # {}
    /\ \E e \in Events(trace, "raise") :
          /\ e.res = "AdapterError"
          /\ e.job \in JobIds(db)
          /\ \E c \in Events(trace, "Baseline test completed") :
                c.job = e.job

\* C16: when get_stable returns no commit for the configured repository,
\* check_patchwork raises before it handles any patch source: it submits
\* no build and leaves the pendingjobs, pendingpatches and patch tables
\* as they were
C16_NoStableNoSubmission ==
    [][(op' = "check_patchwork" /\ trace'[1].res = None) =>
          /\ Len(trace') = 2
          /\ trace'[2].call = "raise"
          /\ trace'[2].res = "Exception"
          /\ pj' = pj
          /\ next_build' = next_build
          /\ db'.pendingjobs = db.pendingjobs
          /\ db'.pendingpatches = db.pendingpatches
          /\ db'.patch = db.patch]_vars

\* C16, reached: a pass of check_patchwork found no stable commit and raised
C16_RaisedWithoutStable ==
    /\ op = "check_patchwork"
    /\ trace[1].call = "get_stable"
    /\ trace[1].res = None
    /\ trace[Len(trace)].call = "raise"
    /\ pj = << >>

\* C17: filter_patchsets raises exactly when the filter ends with a status
\* other than 0 and 1 for some series (127, a negative one, any other);
\* when it does not raise, the series with status 0 are in the ready list
\* and not in the dropped list, those with status 1 are in the dropped list
\* and not in the ready list, and the lists hold nothing else
C17_FilterClassifies ==
    op = "filter_patchsets" =>
        LET args    == Events(trace, "series_summary")
            ready   == {e.res : e \in Events(trace, "ready")}
            dropped == {e.res : e \in Events(trace, "dropped")}
        IN  IF \E a \in args : a.n \notin {0, 1}
            THEN /\ Events(trace, "raise") # {}
                 /\ ready = {} /\ dropped = {}
            ELSE /\ Events(trace, "raise") = {}
                 /\ ready = {a.res : a \in {x \in args : x.n = 0}}
                 /\ dropped = {a.res : a \in {x \in args : x.n = 1}}
                 /\ ready \cap dropped = {}
                 /\ Cardinality(Events(trace, "ready"))
                      + Cardinality(Events(trace, "dropped"))
                      = Cardinality(args)

\* C17, reached: one call put a series in the ready list and another in
\* the dropped list
C17_BothLists ==
    /\ op = "filter_patchsets"
    /\ Events(trace, "ready") # {}
    /\ Events(trace, "dropped") # {}

\* C18: when the filter raises on a series in a pass of check_patchwork,
\* every series the filter accepted before it in that pass is still
\* submitted as a build
C18_AcceptedStillSubmitted ==
    op = "check_patchwork" =>
        ((\E r \in Events(trace, "raise") : r.res = "Exception" /\ r.n >= 1)
         => \A e \in Events(trace, "Executing patch filter command") :
                e.n = 0 =>
                    \E b \in Events(trace, "build") : b.patches = e.patches)

C20_CommitSeriesIdempotent ==
    [][op' = "commit_series" =>
        LET cpw     == PW[trace'[1].job]
            ids     == Ascending(trace'[1].patches)
            patches == PatchInfos(cpw, ids, trace'[1].n)
        IN  /\ commit_series(db', patches).db = db'
            /\ \A k \in 1..Len(ids) :
                  LET rows == {q \in db'.patch : q.id = ids[k]}
                  IN  /\ Cardinality(rows) = 1
                      /\ \A q \in rows :
                            /\ q.name = patches[k].patch_name
                            /\ q.url = patches[k].patch_url
                            /\ q.date = patches[k].patch_date
                            /\ q.patchsource_id \in 1..Len(db'.patchsource)
                            /\ db'.patchsource[q.patchsource_id]
                                  = <<cpw.baseurl, cpw.project_id>>
            /\ \A q \in db.patch :
                  q.id \notin trace'[1].patches => q \in db'.patch]_vars

\* C20, reached: commit_series stored a later revision of patch 101 alone
\* while patch 102, recorded together with 101 at the first revision, kept
\* its row
C20_KnownPatchUpdated ==
    /\ op = "commit_series"
    /\ trace[1].patches = {101}
    /\ trace[1].n = 2
    /\ \E q \in db.patch : q.id = 101 /\ q.date = 2
    /\ \E q \in db.patch : q.id = 102 /\ q.date = 1

\* C21: commit_series for the patches of one patch source leaves the patch
\* rows recorded for another patch source as they were, also those that
\* carry the id of one of the patches
C21_PatchesPerSource ==
    [][op' = "commit_series" =>
        LET cpw == PW[trace'[1].job]
        IN  \A q \in db.patch :
                db.patchsource[q.patchsource_id]
                    # <<cpw.baseurl, cpw.project_id>>
                => q \in db'.patch]_vars

\* C22: after any sequence of update_baseline calls the baseline table
\* holds at most one row per repository and commit
C22_OneBaselinePerCommit ==
    \A i, k \in 1..Len(db.baseline) :
        (/\ db.baseline[i].baserepo_id = db.baseline[k].baserepo_id
         /\ db.baseline[i].commitid = db.baseline[k].commitid)
        => i = k

\* C22, reached: update_baseline was called for a repository and commit
\* that had a row, with a result the ordering rule rejects, and the pair
\* has one row
C22_SecondCallSameCommit ==
    /\ op = "update_baseline"
    /\ trace[2].call = None
    /\ Cardinality(RowsOfCommit(db, trace[2].res, trace[1].res)) = 1

\* C24: no step deletes or changes a testrun row, and every update_baseline
\* call appends one testrun row with its result and build id, whether it
\* creates, relinks or leaves the baseline row
C24_TestRunsAppendOnly ==
    [][/\ Len(db'.testrun) >= Len(db.testrun)
       /\ \A i \in 1..Len(db.testrun) : db'.testrun[i] = db.testrun[i]
       /\ op' = "update_baseline" =>
            /\ Len(db'.testrun) = Len(db.testrun) + 1
            /\ db'.testrun[Len(db'.testrun)] =
                  [result_id |-> trace'[1].n, build_id |-> next_build]]_vars

\* C24, reached: an update_baseline call that left the baseline row as it
\* was appended its testrun row, which no baseline row is linked to
C24_RejectedRunRecorded ==
    /\ op = "update_baseline"
    /\ trace[2].call = None
    /\ Len(db.testrun) >= 2
    /\ db.testrun[Len(db.testrun)].result_id = trace[1].n
    /\ \A i \in 1..Len(db.baseline) :
          db.baseline[i].testrun_id # Len(db.testrun)

\* C23: remove_pending_job(id) returns having deleted the pendingjobs row
\* with that id and the pendingpatches rows of that job and nothing else,
\* whatever the number of digits of id
C23_RemoveJobAndPatches ==
    [][op' = "remove_pending_job" =>
        LET id == trace'[1].job
        IN  /\ trace'[1].res = "none"
            /\ db'.pendingjobs = {j \in db.pendingjobs : j.id # id}
            /\ db'.pendingpatches =
                  {r \in db.pendingpatches : r.pendingjob_id # id}]_vars

\* C25: get_expired_pending_patches(baseurl, project_id, window) returns,
\* and what it returns are patch ids of pendingpatches rows whose patch
\* belongs to that patch source
C25_ExpiredOfSource ==
    op = "get_expired_pending_patches" =>
        /\ trace[1].res = "none"
        /\ trace[1].patches \subseteq
              {r.patch_id : r \in PendingOfSource(db, trace[1].job)}

\* C30: a pass of check_pending that deletes the pendingjobs row of a job
\* it did not find aborted has written the testrun row of the job's build
\* before it: update_baseline comes before remove_pending_job in the pass,
\* and every update_baseline of the pass has left its testrun row
C30_WriteBeforeDelete ==
    [][op' = "check_pending" =>
        /\ \A j \in db.pendingjobs :
              (/\ j \notin db'.pendingjobs
               /\ \A a \in Events(trace', "Test was aborted in Jenkins") :
                     a.job # j.id)
              => /\ j.build_id \in TestedBuilds(db') \ TestedBuilds(db)
                 /\ \E m, n \in 1..Len(trace') :
                       /\ m < n
                       /\ trace'[m].call = "update_baseline"
                       /\ trace'[m].job = j.id
                       /\ trace'[n].call = "remove_pending_job"
                       /\ trace'[n].job = j.id
        /\ \A u \in Events(trace', "update_baseline") :
              \E j \in db.pendingjobs :
                  j.id = u.job /\ j.build_id \in TestedBuilds(db')]_vars

\* C30, reached: a pass wrote the result of a baseline job with
\* update_baseline and deleted its pendingjobs row after that
C30_WrittenThenDeleted ==
    /\ op = "check_pending"
    /\ \E m, n \in 1..Len(trace) :
          /\ m < n
          /\ trace[m].call = "update_baseline"
          /\ trace[n].call = "remove_pending_job"
          /\ trace[n].job = trace[m].job
          /\ trace[m].job \notin JobIds(db)
          /\ \E e \in Events(trace, "Baseline test completed") :
                e.job = trace[m].job /\ e.n \in TestedBuilds(db)

----------------------------------------------------------------------------
(* Properties of the local scheduler *)

Min(a, b) == IF a < b THEN a ELSE b

\* the runs of the scheduler o that start() was applied to, by position
StartedRuns(o) == {i \in 1..Len(o.run_map) : o.run_map[i].started}

\* C26: a submit to the local scheduler returns, and the scheduling tick it
\* ends with leaves min(parallel_run_num, runs held) runs started, never
\* more than parallel_run_num, and the other runs not started
C26_TickFillsSlots ==
    op = "submit" =>
        /\ trace[1].res = "none"
        /\ sched # << >>
        /\ Cardinality(StartedRuns(sched[1])) =
              Min(sched[1].parallel_run_num, Len(sched[1].run_map))

\* C27: a submit to the local scheduler returns, and the scheduling tick it
\* ends with has started the runs in run id order: no run is started while
\* a run of a smaller id is not
C27_OldestStartedFirst ==
    op = "submit" =>
        /\ trace[1].res = "none"
        /\ sched # << >>
        /\ \A i, k \in 1..Len(sched[1].run_map) :
              (i < k /\ sched[1].run_map[k].started)
              => sched[1].run_map[i].started

\* C28: a submitted run is held by the scheduler under the id submit gave
\* it, and start() applied to a run the scheduler holds that was not
\* started returns and leaves it started
C28_RunLifecycle ==
    [][/\ op' = "submit" =>
             /\ trace'[1].res = "none"
             /\ sched' # << >>
             /\ Len(sched'[1].run_map) = sched'[1].run_id
             /\ sched'[1].run_id > 0
       /\ (op' = "start" /\ trace'[1].res # "KeyError") =>
             /\ trace'[1].res = "none"
             /\ sched # << >>
             /\ ~sched[1].run_map[trace'[1].args.run_id + 1].started
             /\ sched'[1].run_map[trace'[1].args.run_id + 1].started]_vars

\* C29: abort() applied to a run the scheduler holds returns and leaves the
\* run out of the started runs, so that its slot is free for the tick
C29_AbortReleasesSlot ==
    (op = "abort" /\ trace[1].res # "KeyError") =>
        /\ trace[1].res = "none"
        /\ sched # << >>
        /\ (trace[1].args.run_id + 1) \notin StartedRuns(sched[1])

----------------------------------------------------------------------------
(* Properties of one reconciliation pass *)

\* the ids of the jobs jk.is_build_complete was called for, in call order
PolledIds(tr) ==
    LET sel == SelectSeq(tr, LAMBDA e : e.call = "is_build_complete")
    IN  [i \in 1..Len(sel) |-> sel[i].job]

\* the ids of the jobs get_pending_jobs lists, in listing order
ListedIds(d) ==
    LET jobs == get_pending_jobs(d).ret
    IN  [i \in 1..Len(jobs) |-> jobs[i].id]

\* C31: a pass of check_pending that no exception ends polls every job that
\* get_pending_jobs listed exactly once, in listing order, and every job
\* the executor reported complete is no longer listed after the pass
C31_EveryListedJobPolled ==
    [][(op' = "check_pending" /\ Events(trace', "raise") = {}) =>
          /\ PolledIds(trace') = ListedIds(db)
          /\ \A e \in Events(trace', "is_build_complete") :
                e.res = "True" => e.job \notin JobIds(db')]_vars

\* C32: a job for which is_build_complete returned False in a pass of
\* check_pending keeps its pendingjobs row and its pendingpatches rows, no
\* testrun row is written for its build, and the testrun and baseline
\* tables change in the pass only if update_baseline ran for another job
C32_RunningJobUntouched ==
    [][op' = "check_pending" =>
          \A e \in Events(trace', "is_build_complete") :
              e.res = "False" =>
                  /\ \E j \in db.pendingjobs :
                        j.id = e.job /\ j \in db'.pendingjobs
                  /\ {r \in db'.pendingpatches : r.pendingjob_id = e.job} =
                        {r \in db.pendingpatches : r.pendingjob_id = e.job}
                  /\ e.n \notin TestedBuilds(db') \ TestedBuilds(db)
                  /\ \A u \in Events(trace', "update_baseline") :
                        u.job # e.job
                  /\ Events(trace', "update_baseline") = {} =>
                        /\ db'.testrun = db.testrun
                        /\ db'.baseline = db.baseline]_vars

\* C32, reached: a pass found the series job 1 with its two pending patches
\* still running and reconciled the baseline job listed after it
C32_RunningThenReconciled ==
    /\ op = "check_pending"
    /\ \E e \in Events(trace, "is_build_complete") :
          /\ e.res = "False"
          /\ e.job \in JobIds(db)
          /\ {r.patch_id : r \in {x \in db.pendingpatches :
                                     x.pendingjob_id = e.job}} = {101, 102}
    /\ Events(trace, "update_baseline") # {}

\* the trace entries of a pass that stand for executor calls which wait for
\* the build: the status request, and the log line and the store call that
\* the fetches of base hash, commit date and result lie between
WaitingCalls == {"get_build_status", "Baseline test completed",
                 "update_baseline"}

\* C33: in a pass of check_pending, the status of a build is requested, and
\* its base hash, commit date and result are fetched (after the log line
\* of the baseline branch, for the update_baseline call that follows it),
\* only after is_build_complete returned True for that job in the pass,
\* and never for a job it returned False for
C33_AskedOnlyWhenComplete ==
    [][op' = "check_pending" =>
          \A n \in 1..Len(trace') :
              trace'[n].call \in WaitingCalls =>
                  /\ \E m \in 1..(n - 1) :
                        /\ trace'[m].call = "is_build_complete"
                        /\ trace'[m].job = trace'[n].job
                        /\ trace'[m].res = "True"
                  /\ \A m \in 1..Len(trace') :
                        (/\ trace'[m].call = "is_build_complete"
                         /\ trace'[m].job = trace'[n].job)
                        => trace'[m].res = "True"]_vars

\* C33, reached: in one pass a build was found running and nothing more
\* was asked about it, and another was found complete, its status was
\* requested and its values were fetched for update_baseline
C33_CompleteJobFetched ==
    /\ op = "check_pending"
    /\ \E k, m, n \in 1..Len(trace) :
          /\ m < n
          /\ trace[k].call = "is_build_complete"
          /\ trace[k].res = "False"
          /\ trace[m].call = "is_build_complete"
          /\ trace[m].res = "True"
          /\ trace[n].call = "update_baseline"
          /\ trace[n].job = trace[m].job
          /\ trace[k].job # trace[m].job

----------------------------------------------------------------------------
(* Properties of the stable baseline over sequences of update_baseline *)

\* get_stable(repo) returns a commit
StableExists(d, repo) == None \notin get_stable(d, repo).ret

\* the baseline rows of the repository whose test run has result SUCCESS
SuccessRows(d, repo) ==
    {i \in 1..Len(d.baseline) :
        /\ d.baseline[i].baserepo_id \in 1..Len(d.baserepo)
        /\ d.baserepo[d.baseline[i].baserepo_id] = repo
        /\ ResultOfRow(d, i) = SUCCESS}

\* C35: a repository for which get_stable returns a commit is one for which
\* it returns a commit after any further call of update_baseline
C35_StableNeverLost ==
    [][\A repo \in Repos :
          StableExists(db, repo) => StableExists(db', repo)]_vars

\* C35, as the code has it: after a call of update_baseline get_stable
\* returns None for a repository it returned a commit for exactly when the
\* call was for that repository, with a result other than SUCCESS, for the
\* commit of its only baseline row with result SUCCESS
C35_StableLostOnlyByFailedRerun ==
    [][op' = "update_baseline" =>
          \A repo \in Repos :
              StableExists(db, repo) =>
                  (~StableExists(db', repo) <=>
                      /\ trace'[2].res = repo
                      /\ trace'[1].n # SUCCESS
                      /\ SuccessRows(db, repo) =
                            RowsOfCommit(db, repo, trace'[1].res))]_vars

\* C35, reached: every test run before the last one succeeded, the last
\* call relinked a baseline row to a run that failed, and get_stable
\* returns None for the repository
C35_StableLost ==
    /\ op = "update_baseline"
    /\ trace[2].call = "updating baseline"
    /\ trace[1].n # SUCCESS
    /\ Len(db.testrun) > 1
    /\ \A k \in 1..(Len(db.testrun) - 1) : db.testrun[k].result_id = SUCCESS
    /\ ~StableExists(db, trace[2].res)

\* C36: a baseline row whose test run has a result other than SUCCESS stays
\* the row of its repository and commit with such a result through every
\* call, and the commit get_stable returns has no such row
C36_FailedCommitNeverStable ==
    [][/\ \A i \in 1..Len(db.baseline) :
             ResultOfRow(db, i) # SUCCESS =>
                 /\ i <= Len(db'.baseline)
                 /\ db'.baseline[i].commitid = db.baseline[i].commitid
                 /\ db'.baseline[i].baserepo_id = db.baseline[i].baserepo_id
                 /\ ResultOfRow(db', i) # SUCCESS
       /\ (op' = "get_stable" /\ trace'[2].res # None) =>
             \A i \in RowsOfCommit(db', trace'[1].res, trace'[2].res) :
                 ResultOfRow(db', i) = SUCCESS]_vars

\* C36, reached: update_baseline was called with SUCCESS for a commit whose
\* baseline row has a failed run, and left the row as it was
C36_SuccessRerunRejected ==
    /\ op = "update_baseline"
    /\ trace[1].n = SUCCESS
    /\ trace[2].call = None
    /\ \E i \in RowsOfCommit(db, trace[2].res, trace[1].res) :
          /\ ResultOfRow(db, i) # SUCCESS
          /\ db.baseline[i].testrun_id < Len(db.testrun)

----------------------------------------------------------------------------
(* Properties of the local scheduler's tick and registry *)

\* C37: the scheduling tick, run on a scheduler of any parallel_run_num
\* from 0 up and any run map, the empty one included, returns
C37_TickTerminates ==
    op = "__update" => trace[1].res = "none"

\* C38: submit returns an id no run was given before, one more than the
\* last, and leaves the run registered in run_map, the map the scheduling
\* tick iterates, where a tick with a free slot finds it to start it
C38_SubmittedRunRegistered ==
    [][op' = "submit" =>
          /\ trace'[1].res = "none"
          /\ sched' # << >>
          /\ sched'[1].run_id =
                (IF sched = << >> THEN 0 ELSE sched[1].run_id) + 1
          /\ Len(sched'[1].run_map) =
                (IF sched = << >> THEN 0 ELSE Len(sched[1].run_map)) + 1]_vars

----------------------------------------------------------------------------
(* Properties of JenkinsProject.build *)

\* C39: a call of JenkinsProject.build returns, and the number it returns
\* is not below the next-build number it read and is the number of the
\* build made from its own request
C39_BuildReturnsOwn ==
    jk.pc = "done" =>
        /\ jk.exc = "none"
        /\ jk.ret >= jk.eid
        /\ jk.builds[jk.ret].req = jk.req

====
